---- MODULE Spec2Model ----
(***************************************************************************)
(* The Stellar payment flow of TRANSCRYPT2.0:                              *)
(*   - StellarTrader (Frontend/src/lib/stellar-client.ts), the wrapper     *)
(*     holding the Horizon server handle and the signing keypair, and its  *)
(*     app-wide singleton stellarTrader;                                   *)
(*   - StellarTradeExecutor (Frontend/src/components/ui/                   *)
(*     stellar-trade-executor.tsx), the React component driving it.        *)
(*                                                                         *)
(* Granularity.  JavaScript runs a handler to its first pending network    *)
(* await without interruption, and the continuation of a resolved promise  *)
(* runs as one microtask chain.  One action is therefore one such run: a   *)
(* user event (with the re-render it causes) or the resolution of one      *)
(* network request together with everything the code does until the next   *)
(* network request is issued.  The Horizon server is the environment: each *)
(* request resolves or rejects nondeterministically.                       *)
(*                                                                         *)
(* An optional value (T | null) is the empty sequence or a one-element     *)
(* sequence.  State setters called by a handler of an instance that is no  *)
(* longer mounted have no effect, as in React; everything else the         *)
(* handler does (toasts, calls on the singleton) still happens.            *)
(*                                                                         *)
(* The fromCurrency and toCurrency selects are left out: assetCode only    *)
(* selects the asset of the payment operation and labels the result.       *)
(***************************************************************************)
EXTENDS Integers, Sequences, FiniteSets, TLC

\* ---------------------------------------------------------------- bounds
\* How many times the component is mounted in a session.
MaxMounts == 2
\* How many executePayment calls are made in a session.
MaxCalls == 2

\* ---------------------------------------------------------------- inputs
\* localStorage.getItem('stellar_secret_key'): null or a stored string.
NoKey == "null"
ValidSecrets == {"S1", "S2"}
StoredKeys == {NoKey, "Sbad"} \cup ValidSecrets

\* The text fields of the form, as the user may type them.
Amounts == {"", "abc", "10", "-5"}
Destinations == {"", "GA"}
Memos == {"", "rent"}

\* What Horizon answers: success, or an error with a message (possibly an
\* empty one).  The hash of the transaction of call n is TxHash(n).
TxHash(n) == "h" \o ToString(n)
ErrMsgs == {"", "timeout"}
Outcomes == {[ok |-> TRUE, err |-> ""]} \cup {[ok |-> FALSE, err |-> m] : m \in ErrMsgs}
\* The answers drawn where the application is explored: the error carries a
\* message (SpecTrader draws the one without, too).
AppOutcomes == {out \in Outcomes : out.ok \/ out.err # ""}

\* ------------------------------------------------------- pure operations
StartsWith(s, p) == Len(s) >= Len(p) /\ SubSeq(s, 1, Len(p)) = p

\* error?.message || 'Unknown error'
MessageOr(m) == IF m = "" THEN "Unknown error" ELSE m

NotConnectedMsg == "Not connected. Call connect() with a valid secret key first."
PaymentFailedRaw(m) == MessageOr(m)
PaymentFailedMsg(m) == "Payment failed: " \o MessageOr(m)
BalanceFailedMsg(m) == "Failed to get account balance: " \o MessageOr(m)

\* Keypair.fromSecret(secretKey).publicKey()
PublicKeyOf(s) == IF s = "S1" THEN "G1" ELSE "G2"

\* isNaN(Number(amount)): Number("") is 0, Number("abc") is NaN.
NumberIsNaN(a) == a = "abc"

\* parseFloat(amount): NaN for "" and "abc".
ParseFloat(a) ==
  CASE a = "10" -> [nan |-> FALSE, val |-> 10]
    [] a = "-5" -> [nan |-> FALSE, val |-> -5]
    [] OTHER    -> [nan |-> TRUE, val |-> 0]

\* StellarTrader.connect: the keypair after the call and the value returned.
\* Keypair.fromSecret throws on an invalid secret, before the assignment.
ConnectClearsOnFailure(kp, secretKey) ==
  IF secretKey \in ValidSecrets
    THEN [keypair |-> <<[secret |-> secretKey, public |-> PublicKeyOf(secretKey)]>>, ok |-> TRUE]
    ELSE [keypair |-> <<>>, ok |-> FALSE]
Connect(kp, secretKey) ==
  IF secretKey \in ValidSecrets
    THEN [keypair |-> <<[secret |-> secretKey, public |-> PublicKeyOf(secretKey)]>>, ok |-> TRUE]
    ELSE [keypair |-> kp, ok |-> FALSE]

\* StellarTrader.isReady
IsReady(kp) == kp # <<>>

\* Operation.payment / Memo.text / build: they throw on a destination that is
\* no account id and on an amount that is no positive decimal.
BuildOk(dest, amt) == dest = "GA" /\ amt = "10"

\* The record executePayment returns.
TradeResultPending(amt, hash) ==
  [id |-> hash, toAsset |-> "XLM", amount |-> ParseFloat(amt), rate |-> 1,
   hash |-> hash, status |-> "pending"]
TradeResult(amt, hash) ==
  [id |-> hash, toAsset |-> "XLM", amount |-> ParseFloat(amt), rate |-> 1,
   hash |-> hash, status |-> "completed"]

\* ------------------------------------------------------------------ state
VARIABLES
  keypair,            \* stellarTrader.keypair
  storedKey,          \* localStorage 'stellar_secret_key'
  mounted,            \* a StellarTradeExecutor instance is mounted
  inst,               \* how many instances were mounted so far
  amount, destination, memo,
  showPaymentDialog, isExecuting, stellarStatus, balance, isLoading, lastTrade,
  conns,              \* the connectToStellar runs awaiting their balance request
  calls,              \* the executePayment calls, and their handlers, under way
  ncalls,             \* how many executePayment calls were made so far
  toast,              \* the toast shown by the step just taken, if any
  done                \* the call that ended in the step just taken, if any

form == <<amount, destination, memo>>
comp == <<amount, destination, memo, showPaymentDialog, isExecuting,
          stellarStatus, balance, isLoading, lastTrade>>
vars == <<keypair, storedKey, mounted, inst, amount, destination, memo,
          showPaymentDialog, isExecuting, stellarStatus, balance, isLoading, lastTrade,
          conns, calls, ncalls, toast, done>>

\* The instance mounted now is the last one mounted.
Live(i) == mounted /\ i = inst

NoToast == <<>>
Toast(kind, msg) == <<[kind |-> kind, msg |-> msg]>>

\* The useState defaults.
FreshComponent ==
  /\ amount = "" /\ destination = "" /\ memo = ""
  /\ showPaymentDialog = FALSE /\ isExecuting = FALSE
  /\ stellarStatus = "disconnected" /\ balance = <<>>
  /\ isLoading = FALSE /\ lastTrade = <<>>

Init ==
  /\ keypair = <<>>
  /\ storedKey \in StoredKeys
  /\ mounted = FALSE
  /\ inst = 0
  /\ FreshComponent
  /\ conns = {}
  /\ calls = {}
  /\ ncalls = 0
  /\ toast = NoToast
  /\ done = <<>>

\* ------------------------------------------------------------ environment
\* The wallet settings store, replace or remove the key.  They are another
\* view of the application: the key changes while no StellarTradeExecutor is
\* mounted.
SetStoredKey(k) ==
  /\ ~mounted
  /\ k # storedKey
  /\ storedKey' = k
  /\ toast' = NoToast /\ done' = <<>>
  /\ UNCHANGED <<keypair, mounted, inst, comp, conns, calls, ncalls>>

\* ------------------------------------------------------ connectToStellar
\* StellarTrader.getAccountBalance(publicKey): the account id it hands to
\* server.loadAccount.
GetAccountBalanceLoads(publicKey) == publicKey

\* Mount: the state is the useState defaults and the effect runs
\* connectToStellar up to its first network request.  A run awaiting its
\* balance request is [inst, key, loaded]: the instance, the secret key read
\* from localStorage and the account id given to server.loadAccount.
Mount ==
  /\ ~mounted
  /\ inst < MaxMounts
  /\ mounted' = TRUE
  /\ inst' = inst + 1
  /\ amount' = "" /\ destination' = "" /\ memo' = ""
  /\ showPaymentDialog' = FALSE /\ isExecuting' = FALSE
  /\ balance' = <<>> /\ lastTrade' = <<>>
  /\ done' = <<>>
  /\ IF storedKey = NoKey
       THEN \* toast.warning, return; finally setIsLoading(false)
            /\ keypair' = keypair
            /\ stellarStatus' = "disconnected"
            /\ isLoading' = FALSE
            /\ toast' = Toast("warning", "Please set your Stellar secret key in the wallet settings")
            /\ conns' = conns
       ELSE LET r == Connect(keypair, storedKey) IN
            /\ keypair' = r.keypair
            /\ toast' = NoToast
            /\ IF r.ok
                 THEN \* setStellarStatus; getAccountBalance(secretKey) is pending
                      /\ stellarStatus' = "connected"
                      /\ isLoading' = TRUE
                      /\ conns' = conns \cup {[inst |-> inst + 1, key |-> storedKey,
                                               loaded |-> GetAccountBalanceLoads(storedKey)]}
                 ELSE /\ stellarStatus' = "disconnected"
                      /\ isLoading' = FALSE
                      /\ conns' = conns
  /\ UNCHANGED <<storedKey, calls, ncalls>>

\* The balance request of a connectToStellar run resolves or rejects.
ConnectBalanceResolved(r, out) ==
  /\ r \in conns
  /\ conns' = conns \ {r}
  /\ toast' = IF out.ok
                THEN Toast("success", "Connected to Stellar network")
                ELSE Toast("error", "Connection failed: " \o BalanceFailedMsg(out.err))
  /\ done' = <<>>
  /\ IF Live(r.inst)
       THEN /\ balance' = IF out.ok THEN <<[of |-> r.loaded]>> ELSE balance
            /\ isLoading' = FALSE
       ELSE UNCHANGED <<balance, isLoading>>
  /\ UNCHANGED <<keypair, storedKey, mounted, inst, form, showPaymentDialog, isExecuting,
                 stellarStatus, lastTrade, calls, ncalls>>

\* The component is unmounted; its state is discarded.
Unmount ==
  /\ mounted
  /\ mounted' = FALSE
  /\ amount' = "" /\ destination' = "" /\ memo' = ""
  /\ showPaymentDialog' = FALSE /\ isExecuting' = FALSE
  /\ stellarStatus' = "disconnected" /\ balance' = <<>>
  /\ isLoading' = FALSE /\ lastTrade' = <<>>
  /\ toast' = NoToast /\ done' = <<>>
  /\ UNCHANGED <<keypair, storedKey, inst, conns, calls, ncalls>>

\* ------------------------------------------------------------- the form
\* The inputs of the main form are rendered when isLoading is false.
SetAmount(a) ==
  /\ mounted /\ ~isLoading /\ a # amount
  /\ amount' = a
  /\ toast' = NoToast /\ done' = <<>>
  /\ UNCHANGED <<keypair, storedKey, mounted, inst, destination, memo,
                 showPaymentDialog, isExecuting, stellarStatus, balance, isLoading,
                 lastTrade, conns, calls, ncalls>>

SetDestination(d) ==
  /\ mounted /\ ~isLoading /\ d # destination
  /\ destination' = d
  /\ toast' = NoToast /\ done' = <<>>
  /\ UNCHANGED <<keypair, storedKey, mounted, inst, amount, memo,
                 showPaymentDialog, isExecuting, stellarStatus, balance, isLoading,
                 lastTrade, conns, calls, ncalls>>

\* The memo input is in the dialog.
SetMemo(m) ==
  /\ mounted /\ showPaymentDialog /\ m # memo
  /\ memo' = m
  /\ toast' = NoToast /\ done' = <<>>
  /\ UNCHANGED <<keypair, storedKey, mounted, inst, amount, destination,
                 showPaymentDialog, isExecuting, stellarStatus, balance, isLoading,
                 lastTrade, conns, calls, ncalls>>

\* disabled of the Send Payment button; NaN <= 0 is false.
SendDisabled ==
  \/ isExecuting
  \/ amount = ""
  \/ destination = ""
  \/ (~ParseFloat(amount).nan /\ ParseFloat(amount).val <= 0)

\* handleOpenPaymentDialog, by a click on Send Payment.
HandleOpenPaymentDialogUnchecked ==
  /\ mounted /\ ~isLoading /\ ~SendDisabled
  /\ showPaymentDialog' = TRUE /\ toast' = NoToast
  /\ done' = <<>>
  /\ UNCHANGED <<keypair, storedKey, mounted, inst, form, isExecuting, stellarStatus,
                 balance, isLoading, lastTrade, conns, calls, ncalls>>
HandleOpenPaymentDialog ==
  /\ mounted /\ ~isLoading /\ ~SendDisabled
  /\ IF IsReady(keypair)
       THEN showPaymentDialog' = TRUE /\ toast' = NoToast
       ELSE /\ showPaymentDialog' = showPaymentDialog
            /\ toast' = Toast("error", "Please connect your wallet first")
  /\ done' = <<>>
  /\ UNCHANGED <<keypair, storedKey, mounted, inst, form, isExecuting, stellarStatus,
                 balance, isLoading, lastTrade, conns, calls, ncalls>>

\* The Cancel button, disabled while isExecuting.
CancelDialog ==
  /\ mounted /\ showPaymentDialog /\ ~isExecuting
  /\ showPaymentDialog' = FALSE
  /\ toast' = NoToast /\ done' = <<>>
  /\ UNCHANGED <<keypair, storedKey, mounted, inst, form, isExecuting, stellarStatus,
                 balance, isLoading, lastTrade, conns, calls, ncalls>>

\* The dialog's own onOpenChange(false) (Escape, overlay, close icon), which
\* nothing disables.
DismissDialog ==
  /\ mounted /\ showPaymentDialog
  /\ showPaymentDialog' = FALSE
  /\ toast' = NoToast /\ done' = <<>>
  /\ UNCHANGED <<keypair, storedKey, mounted, inst, form, isExecuting, stellarStatus,
                 balance, isLoading, lastTrade, conns, calls, ncalls>>

\* ------------------------------------------- StellarTrader.executePayment
\* One call, as a record.  What the callers and the server did:
\*   id           the number of the call
\*   inst         the component instance whose handleExecutePayment made the
\*                call (0: another user of the exported singleton)
\*   dest, amt    the destination and amount arguments (assetCode selects the
\*                asset and memo adds a text memo: neither is kept)
\*   connected    a keypair was set when the call was made
\*   loadAnswer   "ok" or "error" once loadAccount has answered
\*   submitAnswer "ok" or "error" once submitTransaction has answered
\*   srvHash      the hash submitTransaction answered with
\* and what the code did:
\*   pc           "loadAccount", "submit": the request executePayment awaits;
\*                "balance": executePayment has returned and the handler
\*                awaits its balance refresh; "done"
\*   loaded       the account id given to server.loadAccount ("" if not called)
\*   signed       the transaction was built, and signed with the keypair held
\*                when loadAccount had answered
\*   submits      how many times server.submitTransaction was called
\*   failed       the step that failed ("" if none)
\*   result       the TradeResult returned, if any
\*   error        the message of the Error thrown ("" if none)
\*   refresh      the argument of the handler's getAccountBalance ("" if none)
NewCall(id, i, dest, amt, connected) ==
  [id |-> id, inst |-> i, dest |-> dest, amt |-> amt, connected |-> connected,
   loadAnswer |-> "", submitAnswer |-> "", srvHash |-> "",
   pc |-> "loadAccount", loaded |-> "", signed |-> FALSE, submits |-> 0, failed |-> "",
   result |-> <<>>, error |-> "", refresh |-> ""]

\* Lines 62-68: the connection check and the loadAccount request.
ExecutePaymentLoadsFirst(c, kp) ==
  IF kp = <<>>
    THEN [c EXCEPT !.pc = "done", !.loaded = "undefined", !.failed = "connect",
                   !.error = NotConnectedMsg]
    ELSE [c EXCEPT !.loaded = kp[1].public]
ExecutePaymentStart(c, kp) ==
  IF kp = <<>>
    THEN [c EXCEPT !.pc = "done", !.failed = "connect", !.error = NotConnectedMsg]
    ELSE [c EXCEPT !.loaded = kp[1].public]

\* Lines 68-99 and the catch: loadAccount has answered; the transaction is
\* built and signed with the keypair held now, and submitted.
ExecutePaymentSubmitsAnyway(c, kp, out) ==
  IF BuildOk(c.dest, c.amt)
    THEN [c EXCEPT !.pc = "submit", !.signed = kp # <<>>, !.submits = @ + 1]
    ELSE [c EXCEPT !.pc = "done", !.failed = "build",
                   !.error = PaymentFailedMsg("invalid")]
ExecutePaymentLoaded(c, kp, out) ==
  IF ~out.ok
    THEN [c EXCEPT !.pc = "done", !.failed = "loadAccount",
                   !.error = PaymentFailedMsg(out.err)]
    ELSE IF BuildOk(c.dest, c.amt)
      THEN [c EXCEPT !.pc = "submit", !.signed = kp # <<>>, !.submits = @ + 1]
      ELSE [c EXCEPT !.pc = "done", !.failed = "build",
                     !.error = PaymentFailedMsg("invalid")]

\* Lines 99-117: submitTransaction has answered.
ExecutePaymentRetries(c, out, hash) ==
  IF out.ok
    THEN [c EXCEPT !.pc = "done", !.result = <<TradeResult(c.amt, hash)>>]
    ELSE [c EXCEPT !.submits = @ + 1]
ExecutePaymentSubmitted(c, out, hash) ==
  IF out.ok
    THEN [c EXCEPT !.pc = "done", !.result = <<TradeResult(c.amt, hash)>>]
    ELSE [c EXCEPT !.pc = "done", !.failed = "submit", !.error = PaymentFailedMsg(out.err)]

\* ------------------------------------------------- handleExecutePayment
\* disabled of the Confirm Payment button.
ConfirmNeverDisabled == FALSE
ConfirmDisabled == isExecuting

\* Line 63.
InvalidInputIgnoresDestination == amount = "" \/ NumberIsNaN(amount)
InvalidInput == amount = "" \/ NumberIsNaN(amount) \/ destination = ""

\* catch and finally (lines 94-99), in instance i, for an error with message
\* msg: the toast, and setIsExecuting(false).
CatchResetsForm(i, msg) ==
  /\ toast' = Toast("error", "Payment failed: " \o msg)
  /\ IF Live(i)
       THEN /\ isExecuting' = FALSE
            /\ amount' = "" /\ destination' = "" /\ memo' = ""
            /\ showPaymentDialog' = FALSE
       ELSE UNCHANGED <<isExecuting, amount, destination, memo, showPaymentDialog>>
  /\ UNCHANGED <<stellarStatus, balance, isLoading, lastTrade>>
CatchPaymentError(i, msg) ==
  /\ toast' = Toast("error", "Payment failed: " \o msg)
  /\ isExecuting' = IF Live(i) THEN FALSE ELSE isExecuting
  /\ UNCHANGED <<amount, destination, memo, showPaymentDialog, stellarStatus, balance,
                 isLoading, lastTrade>>

\* Lines 89-93 and finally: the form is reset and the dialog closed.
ResetForm(i) ==
  IF Live(i)
    THEN /\ amount' = "" /\ destination' = "" /\ memo' = ""
         /\ showPaymentDialog' = FALSE
         /\ isExecuting' = FALSE
    ELSE UNCHANGED <<amount, destination, memo, showPaymentDialog, isExecuting>>

\* What follows a step of executePayment that took call c to c2: the call
\* awaits its next request, or it has settled and its caller goes on: the
\* handler with lines 79-87 after a result, with its catch after an error.
AfterExecutePayment(c, c2) ==
  IF c2.pc # "done"
    THEN /\ calls' = (calls \ {c}) \cup {c2}
         /\ toast' = NoToast /\ done' = <<>>
         /\ UNCHANGED comp
    ELSE IF c2.inst = 0
      THEN /\ calls' = calls \ {c}
           /\ toast' = NoToast /\ done' = <<c2>>
           /\ UNCHANGED comp
      ELSE IF c2.result = <<>>
        THEN /\ calls' = calls \ {c}
             /\ done' = <<c2>>
             /\ CatchPaymentError(c2.inst, c2.error)
        ELSE /\ lastTrade' = IF Live(c2.inst) THEN c2.result ELSE lastTrade
             /\ toast' = Toast("success", "Payment executed successfully!")
             /\ IF storedKey # NoKey
                  THEN /\ calls' = (calls \ {c}) \cup
                                     {[c2 EXCEPT !.pc = "balance",
                                                 !.refresh = GetAccountBalanceLoads(storedKey)]}
                       /\ done' = <<>>
                       /\ UNCHANGED <<amount, destination, memo, showPaymentDialog,
                                      isExecuting>>
                  ELSE /\ calls' = calls \ {c}
                       /\ done' = <<c2>>
                       /\ ResetForm(c2.inst)
             /\ UNCHANGED <<stellarStatus, balance, isLoading>>

\* A click on Confirm Payment: handleExecutePayment up to the loadAccount
\* request of executePayment (or to its end, if it makes no request).
HandleExecutePayment ==
  /\ mounted /\ showPaymentDialog /\ ~ConfirmDisabled
  /\ IF InvalidInput
       THEN /\ toast' = Toast("error", "Please fill in all required fields")
            /\ done' = <<>>
            /\ UNCHANGED <<comp, calls, ncalls>>
       ELSE /\ ncalls < MaxCalls
            /\ ncalls' = ncalls + 1
            /\ LET c == ExecutePaymentStart(
                          NewCall(ncalls + 1, inst, destination, amount, IsReady(keypair)),
                          keypair)
               IN IF c.pc = "done"
                    THEN /\ calls' = calls
                         /\ done' = <<c>>
                         /\ CatchPaymentError(inst, c.error)
                    ELSE /\ calls' = calls \cup {c}
                         /\ done' = <<>>
                         /\ isExecuting' = TRUE
                         /\ toast' = NoToast
                         /\ UNCHANGED <<form, showPaymentDialog, stellarStatus,
                                        balance, isLoading, lastTrade>>
  /\ UNCHANGED <<keypair, storedKey, mounted, inst, conns>>

\* The loadAccount request of call c is answered.
LoadAccountResolved(c, out) ==
  /\ c \in calls
  /\ c.pc = "loadAccount"
  /\ AfterExecutePayment(c,
       ExecutePaymentLoaded([c EXCEPT !.loadAnswer = IF out.ok THEN "ok" ELSE "error"],
                            keypair, out))
  /\ UNCHANGED <<keypair, storedKey, mounted, inst, conns, ncalls>>

\* The submitTransaction request of call c is answered.
SubmitResolved(c, out) ==
  /\ c \in calls
  /\ c.pc = "submit"
  /\ AfterExecutePayment(c,
       ExecutePaymentSubmitted(
         [c EXCEPT !.submitAnswer = IF out.ok THEN "ok" ELSE "error",
                   !.srvHash = IF out.ok THEN TxHash(c.id) ELSE ""],
         out, TxHash(c.id)))
  /\ UNCHANGED <<keypair, storedKey, mounted, inst, conns, ncalls>>

\* The balance refresh of call c is answered (lines 85-93, or the catch).
RefreshResolved(c, out) ==
  /\ c \in calls
  /\ c.pc = "balance"
  /\ calls' = calls \ {c}
  /\ done' = <<[c EXCEPT !.pc = "done", !.failed = IF out.ok THEN "" ELSE "refresh"]>>
  /\ IF out.ok
       THEN /\ balance' = IF Live(c.inst) THEN <<[of |-> c.refresh]>> ELSE balance
            /\ ResetForm(c.inst)
            /\ toast' = NoToast
            /\ UNCHANGED <<stellarStatus, isLoading, lastTrade>>
       ELSE CatchPaymentError(c.inst, BalanceFailedMsg(out.err))
  /\ UNCHANGED <<keypair, storedKey, mounted, inst, conns, ncalls>>

\* ------------------------------------------- other users of the singleton
\* connect and executePayment are called on the exported stellarTrader by
\* code other than the component.
DirectConnect(secretKey) ==
  /\ keypair' = Connect(keypair, secretKey).keypair
  /\ keypair' # keypair
  /\ toast' = NoToast /\ done' = <<>>
  /\ UNCHANGED <<storedKey, mounted, inst, comp, conns, calls, ncalls>>

DirectExecutePayment(dest, amt) ==
  /\ ncalls < MaxCalls
  /\ ncalls' = ncalls + 1
  /\ LET c == ExecutePaymentStart(NewCall(ncalls + 1, 0, dest, amt, IsReady(keypair)),
                                  keypair)
     IN IF c.pc = "done"
          THEN calls' = calls /\ done' = <<c>>
          ELSE calls' = calls \cup {c} /\ done' = <<>>
  /\ toast' = NoToast
  /\ UNCHANGED <<keypair, storedKey, mounted, inst, comp, conns>>

\* The calls under way and the one that has just ended.
AllCalls == calls \cup {done[k] : k \in 1..Len(done)}

\* A step of executePayment failed: a request was rejected, or the
\* transaction could not be built.
StepFailed(c) ==
  \/ c.loadAnswer = "error"
  \/ (c.loadAnswer = "ok" /\ ~BuildOk(c.dest, c.amt))
  \/ c.submitAnswer = "error"

\* executePayment of call c has not completed.
InFlight(c) == c.pc \in {"loadAccount", "submit"}

\* -------------------------------------------------------- specifications
Next ==
  \/ \E k \in StoredKeys : SetStoredKey(k)
  \/ Mount
  \/ \E r \in conns, out \in AppOutcomes : ConnectBalanceResolved(r, out)
  \/ Unmount
  \/ \E a \in Amounts : SetAmount(a)
  \/ \E d \in Destinations : SetDestination(d)
  \/ \E m \in Memos : SetMemo(m)
  \/ HandleOpenPaymentDialog
  \/ CancelDialog
  \/ DismissDialog
  \/ HandleExecutePayment
  \/ \E c \in calls, out \in AppOutcomes : LoadAccountResolved(c, out)
  \/ \E c \in calls, out \in AppOutcomes : SubmitResolved(c, out)
  \/ \E c \in calls, out \in AppOutcomes : RefreshResolved(c, out)

\* The application: the component drives the singleton.
Spec == Init /\ [][Next]_vars

\* The StellarTrader singleton under any sequence of calls.
NextTrader ==
  \/ \E s \in StoredKeys \ {NoKey} : DirectConnect(s)
  \/ \E d \in Destinations, a \in Amounts : DirectExecutePayment(d, a)
  \/ \E c \in calls, out \in Outcomes : LoadAccountResolved(c, out)
  \/ \E c \in calls, out \in Outcomes : SubmitResolved(c, out)

SpecTrader == Init /\ [][NextTrader]_vars
\* ---------------------------------------------------------------- claims
\* C1: a call of executePayment made while a keypair is set, in which
\* loadAccount, the building or signing, or submitTransaction fails, ends by
\* throwing an Error whose message starts with "Payment failed: " and returns
\* no TradeResult; a TradeResult is returned only when submitTransaction
\* succeeded.
C1_FailureIsWrapped ==
  \A c \in AllCalls :
    c.connected =>
      /\ StepFailed(c) =>
           /\ c.pc = "done"
           /\ StartsWith(c.error, "Payment failed: ")
           /\ c.result = <<>>
      /\ c.result # <<>> => c.submitAnswer = "ok"

\* A submitTransaction rejected with an error that has no message.
C1_Witness ==
  /\ done # <<>>
  /\ done[1].connected
  /\ done[1].submitAnswer = "error"
  /\ done[1].error = "Payment failed: Unknown error"

\* C7: executePayment called while no keypair is set throws the "Not
\* connected" error and calls neither server.loadAccount nor
\* server.submitTransaction.
C7_NotConnectedNoNetwork ==
  \A c \in AllCalls :
    ~c.connected =>
      /\ c.pc = "done"
      /\ c.error = NotConnectedMsg
      /\ c.loaded = "" /\ c.loadAnswer = ""
      /\ c.submits = 0 /\ c.submitAnswer = ""
      /\ c.result = <<>>

C7_Witness ==
  /\ done # <<>>
  /\ ~done[1].connected
  /\ done[1].error = NotConnectedMsg
  /\ keypair = <<>>

\* C8: every trade-result record has a status among 'pending', 'completed',
\* 'failed'; every TradeResult executePayment returns has status 'completed'
\* and id = hash = the hash submitTransaction answered with; a call that
\* threw produced no record.
C8_TradeResultShape ==
  /\ \A c \in AllCalls :
       /\ c.result # <<>> =>
            /\ c.result[1].status = "completed"
            /\ c.result[1].id = c.result[1].hash
            /\ c.result[1].hash = c.srvHash
            /\ c.srvHash # ""
       /\ c.error # "" => c.result = <<>>
  /\ lastTrade # <<>> =>
       /\ lastTrade[1].status \in {"pending", "completed", "failed"}
       /\ lastTrade[1].id = lastTrade[1].hash

\* The second payment of the session has returned and is shown as lastTrade.
C8_Witness ==
  \E c \in calls :
    /\ c.pc = "balance"
    /\ c.result = lastTrade
    /\ lastTrade[1].hash = "h2"
    /\ lastTrade[1].amount.val = 10

\* C2 as stated: at any moment at most one executePayment call made by
\* StellarTradeExecutor is in flight.
C2_AtMostOneInFlight ==
  Cardinality({c \in calls : c.inst # 0 /\ InFlight(c)}) <= 1

\* C2, amended: two executePayment calls in flight at the same moment were
\* made by different instances of the component.
C2_OneInFlightPerInstance ==
  \A c1, c2 \in calls :
    (c1.inst # 0 /\ InFlight(c1) /\ InFlight(c2) /\ c1.inst = c2.inst) => c1 = c2

\* The mounted instance has a call in flight while the call of an earlier,
\* unmounted instance is still in flight.
C2_Witness ==
  \E c1, c2 \in calls :
    /\ InFlight(c1) /\ InFlight(c2)
    /\ c1.inst # 0 /\ c1.inst < c2.inst
    /\ Live(c2.inst) /\ isExecuting

\* C3: no retry.  One invocation of handleExecutePayment calls
\* submitTransaction at most once, and a call in which a request was rejected
\* is over: nothing is under way for it that could submit again.
C3_NoRetry ==
  \A c \in AllCalls :
    /\ c.submits <= 1
    /\ (c.loadAnswer = "error" \/ c.submitAnswer = "error") =>
         (c \notin calls /\ c.pc = "done")

\* A handler whose submitTransaction was rejected has ended.
C3_Witness ==
  /\ done # <<>>
  /\ done[1].inst # 0
  /\ done[1].submitAnswer = "error"
  /\ done[1].submits = 1
  /\ calls = {}

\* C4: submitTransaction is called only after loadAccount has succeeded and
\* the transaction was built and signed in that call; the handler's balance
\* refresh is started only after executePayment has returned a result.
C4_StepsInOrder ==
  \A c \in AllCalls :
    /\ c.submits > 0 =>
         /\ c.loaded # "" /\ c.loadAnswer = "ok"
         /\ BuildOk(c.dest, c.amt) /\ c.signed
    /\ c.refresh # "" =>
         /\ c.submitAnswer = "ok" /\ c.result # <<>>
         /\ c.error = ""

\* A handler awaiting its balance refresh.
C4_Witness ==
  \E c \in calls :
    /\ c.pc = "balance" /\ c.refresh # ""
    /\ c.submits = 1 /\ c.result # <<>>

\* C5 as stated: once set, keypair is never changed.
C5_KeypairSetOnce ==
  [][keypair # <<>> => keypair' = keypair]_vars

\* C5, amended: once set, keypair is never cleared, and it is changed only by
\* a later connect call that succeeds, which replaces it by the keypair of the
\* secret key it was given (here the connect of a newly mounted instance,
\* with the stored key).
C5_KeypairChangedOnlyByConnect ==
  [][keypair # <<>> =>
       /\ keypair' # <<>>
       /\ keypair' # keypair =>
            /\ inst' = inst + 1
            /\ storedKey \in ValidSecrets
            /\ keypair' = <<[secret |-> storedKey, public |-> PublicKeyOf(storedKey)]>>]_vars

\* A call made under one keypair is still in flight when connect has
\* replaced the keypair.
C5_Witness ==
  /\ keypair # <<>>
  /\ \E c \in calls : c.loaded # "" /\ c.loaded # keypair[1].public

\* C6: when executePayment throws, handleExecutePayment shows the error toast
\* and no success toast, and changes nothing of the component's state but
\* isExecuting, which it leaves false in the instance that made the call.
C6_FailureFrame ==
  [][(done' # <<>> /\ done'[1].inst # 0 /\ done'[1].error # "") =>
       /\ toast' = Toast("error", "Payment failed: " \o done'[1].error)
       /\ UNCHANGED <<lastTrade, balance, amount, destination, memo, showPaymentDialog,
                      stellarStatus, isLoading>>
       /\ (mounted' /\ done'[1].inst = inst') => ~isExecuting']_vars

\* The mounted instance's call has just failed: the form and the dialog are
\* as they were.
C6_Witness ==
  /\ done # <<>>
  /\ Live(done[1].inst)
  /\ done[1].error # ""
  /\ toast # <<>> /\ toast[1].kind = "error"
  /\ amount = "10" /\ destination = "GA" /\ memo = "rent"
  /\ showPaymentDialog /\ ~isExecuting

\* C9: after an executePayment that returned a result, handleExecutePayment
\* ends with lastTrade that result, the form empty and the dialog closed,
\* whatever the balance refresh did.
C9_SuccessResetsForm ==
  (done # <<>> /\ done[1].result # <<>> /\ Live(done[1].inst)) =>
    /\ lastTrade = done[1].result
    /\ amount = "" /\ destination = "" /\ memo = ""
    /\ ~showPaymentDialog

\* C10: every getAccountBalance call of the component, on connect and after
\* a payment, loads the account of the public key of the trader's keypair.
C10_BalanceOfConnectedAccount ==
  /\ \A r \in conns : r.loaded = PublicKeyOf(r.key)
  /\ \A c \in calls :
       c.pc = "balance" => (keypair # <<>> /\ c.refresh = keypair[1].public)

\* C11: a handleExecutePayment that shows "Please fill in all required
\* fields" ran with an empty amount, an amount that is no number or an empty
\* destination, and it made no executePayment call and changed no state of
\* the component; a handleExecutePayment that calls executePayment ran with
\* none of the three, so the call has a numeric amount and a non-empty
\* destination.
C11_InvalidInputRejected ==
  [][/\ toast' = Toast("error", "Please fill in all required fields") =>
          /\ (amount = "" \/ NumberIsNaN(amount) \/ destination = "")
          /\ UNCHANGED <<comp, calls, ncalls, keypair>>
     /\ ncalls' # ncalls =>
          /\ ~(amount = "" \/ NumberIsNaN(amount) \/ destination = "")
          /\ \A c \in calls' \cup {done'[k] : k \in 1..Len(done')} :
               c.id = ncalls' =>
                 /\ c.inst = inst
                 /\ c.amt # "" /\ ~NumberIsNaN(c.amt) /\ ~ParseFloat(c.amt).nan
                 /\ c.dest # ""
    ]_vars

\* The handler has just rejected an amount that is no number, in an open
\* dialog.
C11_Witness ==
  /\ toast = Toast("error", "Please fill in all required fields")
  /\ mounted /\ showPaymentDialog /\ ~isExecuting
  /\ amount = "abc" /\ destination = "GA"
  /\ calls = {}

\* C12: showPaymentDialog becomes true only in a step taken while a keypair
\* is set; a step that shows "Please connect your wallet first" is taken
\* while none is set and leaves showPaymentDialog false; the dialog is never
\* open while no keypair is set, and no executePayment call of the component
\* is made while none is set.
C12_DialogOnlyWhenReady ==
  [][/\ (~showPaymentDialog /\ showPaymentDialog') => keypair # <<>>
     /\ toast' = Toast("error", "Please connect your wallet first") =>
          /\ keypair = <<>>
          /\ ~showPaymentDialog /\ ~showPaymentDialog'
          /\ UNCHANGED <<comp, calls, ncalls, keypair>>
     /\ showPaymentDialog' => keypair' # <<>>
     /\ ncalls' # ncalls => keypair # <<>>
     /\ \A c \in calls' \cup {done'[k] : k \in 1..Len(done')} :
          c.inst # 0 => (c.connected /\ c.failed # "connect" /\ c.error # NotConnectedMsg)
    ]_vars

\* Send Payment was clicked on a filled form while no keypair was set.
C12_Witness ==
  /\ toast = Toast("error", "Please connect your wallet first")
  /\ mounted /\ keypair = <<>> /\ ~showPaymentDialog
  /\ amount = "10" /\ destination = "GA"
====
